---- MODULE Spec2Model ----
(***************************************************************************)
(* gormdb2struct: the resolution pipeline of main / postgresToGorm.        *)
(*                                                                         *)
(* Four specifications share the module's variables:                       *)
(*   SpecRel   - genRelationField applied to one ExtraField                *)
(*   SpecTypes - the startup merge of main and the data-type hook that     *)
(*               postgresToGorm installs in the generator                  *)
(*   SpecTags  - the JSON tag override loop of postgresToGorm              *)
(*   Spec      - runs of postgresToGorm against a database                 *)
(* Each specification leaves the variables of the others at their idle     *)
(* values.                                                                 *)
(***************************************************************************)
EXTENDS Integers, Sequences, FiniteSets, TLC

VARIABLES
    ef,          \* SpecRel: the ExtraField handed to genRelationField
    fld,         \* SpecRel: the gen.Field it fills in
    userCfg,     \* SpecTypes: TypeMap / DomainTypeMap as decoded from TOML
    cfgMaps,     \* SpecTypes: cfg.TypeMap / cfg.DomainTypeMap, merged in place
    merges,      \* SpecTypes: number of completed merge passes
    column,      \* SpecTypes: the column last handed to the generator
    resolved,    \* SpecTypes: the Go type the generator got for it
    tagIn,       \* SpecTags: table name, reflected model and config
    tagOut,      \* SpecTags: the model after the override loop
    cfg,         \* Spec: the ConversionConfig handed to postgresToGorm
    run,         \* Spec: "first" or "second" run of the program
    pc,          \* Spec: position in postgresToGorm
    dbViews,     \* Spec: the plain views of schema public in the database
    tables,      \* Spec: the local tables
    materializedViews, \* Spec: the local materializedViews
    vi,          \* Spec: number of loop passes completed in the current loop
    modelsMap,   \* Spec: the local modelsMap
    deferred,    \* Spec: temp views whose drop is deferred, oldest first
    applied,     \* Spec: the models handed to g.ApplyBasic, in order
    executed,    \* Spec: g.Execute has been called
    modelStructNames, \* Spec: the names rendered into db.go, in order
    log,         \* Spec: what has happened in this run
    prev         \* Spec: the output of the first run

None == "<none>"

relVars == <<ef, fld>>
typeVars == <<userCfg, cfgMaps, merges, column, resolved>>
tagVars == <<tagIn, tagOut>>
runVars == <<cfg, run, pc, dbViews, tables, materializedViews, vi, modelsMap,
             deferred, applied, executed, modelStructNames, log, prev>>
vars == <<relVars, typeVars, tagVars, runVars>>

RelIdle == ef = None /\ fld = None
TypesIdle ==
    /\ userCfg = None /\ cfgMaps = None
    /\ merges = 0 /\ column = None /\ resolved = None
TagsIdle == tagIn = None /\ tagOut = None
RunIdle ==
    /\ cfg = None /\ run = None /\ pc = None /\ dbViews = {}
    /\ tables = <<>> /\ materializedViews = <<>> /\ vi = 0
    /\ modelsMap = None /\ deferred = <<>> /\ applied = <<>>
    /\ executed = FALSE /\ modelStructNames = <<>> /\ log = None /\ prev = None

(***************************************************************************)
(* Strings.  Go strings are TLA+ strings; indices are 0-based as in Go.    *)
(***************************************************************************)

\* s[i] of Go, as a one-character string.
CharAt(s, i) == SubSeq(s, i + 1, i + 1)

\* s[i:] of Go.
SliceFrom(s, i) == SubSeq(s, i + 1, Len(s))

\* strings.LastIndex(s, c) for a one-character c: -1 when c does not occur.
LastIndex(s, c) ==
    LET hits == {i \in 0..(Len(s) - 1) : CharAt(s, i) = c}
    IN  IF hits = {} THEN -1 ELSE CHOOSE i \in hits : \A j \in hits : j <= i

\* strcase.ToLowerCamel on the identifiers the model uses.
ToLowerCamel(s) ==
    CASE s = "Attachments" -> "attachments"
      [] s = "Owner"       -> "owner"
      [] s = "col_x"       -> "colX"
      [] s = "id"          -> "id"
      [] s = ""            -> ""
      [] OTHER             -> s

(***************************************************************************)
(* genRelationField                                                        *)
(***************************************************************************)

NoTag == [foreignKey |-> "", references |-> ""]

NoRelation == [kind |-> "", name |-> "", type |-> ""]

\* gen.FieldNew("", "", nil)(nil): an empty field.  Tag is the json tag.
NoField == [Name |-> "", ColumnName |-> "", Type |-> "", Tag |-> "",
            GORMTag |-> NoTag, Relation |-> NoRelation]

\* The value of baseType after line 207, before the decorations.
LocalType(e) ==
    LET lastDotIndex == LastIndex(e.StructPropType, ".")
    IN  IF lastDotIndex # -1
        THEN SliceFrom(e.StructPropType, lastDotIndex + 1)
        ELSE e.StructPropType

\* A variant that wraps the slice before it adds the pointer prefix.
BaseTypeSwapped(e) ==
    LET many == IF e.HasMany THEN "[]" \o LocalType(e) ELSE LocalType(e)
    IN  IF e.Pointer THEN "*" \o many ELSE many

\* The value of baseType at line 215.
BaseType(e) ==
    LET ptr == IF e.Pointer THEN "*" \o LocalType(e) ELSE LocalType(e)
    IN  IF e.HasMany THEN "[]" \o ptr ELSE ptr

\* The field genRelationField leaves behind in fld.
genRelationField(e) ==
    [Name       |-> e.StructPropName,
     ColumnName |-> "",
     Type       |-> BaseType(e),
     Tag        |-> ToLowerCamel(e.StructPropName),
     GORMTag    |-> [foreignKey |-> e.FkStructPropName,
                     references |-> e.RefStructPropName],
     Relation   |-> [kind |-> IF e.HasMany THEN "has_many" ELSE "has_one",
                     name |-> e.StructPropName,
                     type |-> e.StructPropType]]

MaxLen == 3

Alphabet == {"m", ".", "A"}

RECURSIVE StringsUpTo(_)
StringsUpTo(n) ==
    IF n = 0 THEN {""}
    ELSE LET shorter == StringsUpTo(n - 1)
         IN  shorter \cup {s \o c : s \in shorter, c \in Alphabet}

PropTypes == StringsUpTo(MaxLen) \cup {"models.Attachment", "Attachment", "models."}

ExtraFieldsIn ==
    [StructPropName : {"Attachments"}, StructPropType : PropTypes,
     FkStructPropName : {"TicketID"}, RefStructPropName : {"TicketID"},
     HasMany : BOOLEAN, Pointer : BOOLEAN]

InitRel ==
    /\ ef \in ExtraFieldsIn
    /\ fld = NoField
    /\ TypesIdle /\ TagsIdle /\ RunIdle

FieldTypeOf(e) ==
    (IF e.HasMany THEN "[]" ELSE "") \o (IF e.Pointer THEN "*" ELSE "")

Malformed(s) == s = "" \/ CharAt(s, Len(s) - 1) = "."

\* a := gen.FieldNew("", "", nil); f := a(nil); genRelationField(&ef, gen.Field(f))
GenRelationField ==
    /\ fld = NoField
    /\ fld' = genRelationField(ef)
    /\ UNCHANGED <<ef, typeVars, tagVars, runVars>>

NextRel == GenRelationField

SpecRel == InitRel /\ [][NextRel]_vars

\* Suffixes of s that hold no "." and start the string or follow a ".".
LocalSegments(s) ==
    {SubSeq(s, k + 1, Len(s)) : k \in
        {j \in 0..Len(s) :
            /\ \A i \in (j + 1)..Len(s) : SubSeq(s, i, i) # "."
            /\ (j = 0 \/ SubSeq(s, j, j) = ".")}}

\* C5: once genRelationField has run, the field type is the slice wrapper
\* (if HasMany), then the pointer prefix (if Pointer), then the part of
\* StructPropType after its last "."; "models.Attachment" with both flags
\* gives "[]*Attachment" and "Attachment" with neither gives "Attachment".
C5_FieldType ==
    fld # NoField =>
        /\ \E L \in LocalSegments(ef.StructPropType) :
              /\ \A M \in LocalSegments(ef.StructPropType) : Len(L) >= Len(M)
              /\ fld.Type = FieldTypeOf(ef) \o L
        /\ (ef.StructPropType = "models.Attachment" /\ ef.HasMany /\ ef.Pointer
                => fld.Type = "[]*Attachment")
        /\ (ef.StructPropType = "Attachment" /\ ~ef.HasMany /\ ~ef.Pointer
                => fld.Type = "Attachment")

C5_Witness ==
    /\ fld # NoField
    /\ ef.StructPropType = "models.Attachment" /\ ef.HasMany /\ ef.Pointer
    /\ fld.Type = "[]*Attachment"

\* C6: for a malformed StructPropType (empty, or nothing after the last ".")
\* the bare type name is the whole StructPropType, so the field type is the
\* decorations followed by StructPropType, and a non-empty input never gives
\* an empty bare name.
C6_MalformedKeptWhole ==
    (fld # NoField /\ Malformed(ef.StructPropType)) =>
        /\ fld.Type = FieldTypeOf(ef) \o ef.StructPropType
        /\ (ef.StructPropType # "" => fld.Type # FieldTypeOf(ef))

(***************************************************************************)
(* Type resolution: pgtypes.PgTypeMap, the defaults of conversionConfig,   *)
(* the merge of main and the hook table dtMaps of postgresToGorm.          *)
(***************************************************************************)

\* pgtypes.PgTypeMap, entry by entry.
PgTypeMapEntries == {
    <<"text[]", "pgtypes.StringArray">>,
    <<"varchar[]", "pgtypes.StringArray">>,
    <<"integer[]", "pgtypes.Int32Array">>,
    <<"int4[]", "pgtypes.Int32Array">>,
    <<"int8[]", "pgtypes.Int64Array">>,
    <<"bigint[]", "pgtypes.Int64Array">>,
    <<"bool[]", "pgtypes.BoolArray">>,
    <<"boolean[]", "pgtypes.BoolArray">>,
    <<"uuid[]", "pgtypes.UUIDArray">>,
    <<"float8[]", "pgtypes.Float64Array">>,
    <<"double precision[]", "pgtypes.Float64Array">>,
    <<"timestamptz[]", "pgtypes.TimeArray">>,
    <<"timestamp[]", "pgtypes.TimeArray">>,
    <<"timestamp with time zone[]", "pgtypes.TimeArray">>,
    <<"timestamp without time zone[]", "pgtypes.TimeArray">>,
    <<"interval", "pgtypes.Duration">>,
    <<"interval[]", "pgtypes.DurationArray">>,
    <<"bool", "bool">>,
    <<"int2", "int16">>,
    <<"int4", "int32">>,
    <<"int8", "int64">>,
    <<"float4", "float32">>,
    <<"float8", "float64">>,
    <<"numeric", "string">>,
    <<"text", "string">>,
    <<"varchar", "string">>,
    <<"bpchar", "string">>,
    <<"char", "string">>,
    <<"name", "string">>,
    <<"bytea", "[]byte">>,
    <<"uuid", "uuid.UUID">>,
    <<"json", "json.RawMessage">>,
    <<"jsonb", "json.RawMessage">>,
    <<"xml", "string">>,
    <<"date", "time.Time">>,
    <<"timestamp", "time.Time">>,
    <<"timestamptz", "time.Time">>,
    <<"time", "string">>,
    <<"timetz", "string">>,
    <<"inet", "net.IPNet">>,
    <<"cidr", "net.IPNet">>,
    <<"macaddr", "net.HardwareAddr">>,
    <<"macaddr8", "net.HardwareAddr">>,
    <<"bit", "string">>,
    <<"varbit", "string">>,
    <<"tsvector", "string">>,
    <<"tsquery", "string">>,
    <<"oid", "uint32">>,
    <<"regclass", "uint32">>,
    <<"regproc", "uint32">>,
    <<"regprocedure", "uint32">>,
    <<"regtype", "uint32">>,
    <<"regrole", "uint32">>,
    <<"regnamespace", "uint32">>,
    <<"regconfig", "uint32">>,
    <<"regdictionary", "uint32">>,
    <<"pg_lsn", "string">>,
    <<"txid_snapshot", "string">>,
    <<"point", "string">>,
    <<"line", "string">>,
    <<"lseg", "string">>,
    <<"box", "string">>,
    <<"path", "string">>,
    <<"polygon", "string">>,
    <<"circle", "string">>,
    <<"int4range", "string">>,
    <<"int8range", "string">>,
    <<"numrange", "string">>,
    <<"tsrange", "string">>,
    <<"tstzrange", "string">>,
    <<"daterange", "string">>,
    <<"int4multirange", "string">>,
    <<"int8multirange", "string">>,
    <<"nummultirange", "string">>,
    <<"tsmultirange", "string">>,
    <<"tstzmultirange", "string">>,
    <<"datemultirange", "string">>,
    <<"money", "string">> }

PgTypeMapKeys == {e[1] : e \in PgTypeMapEntries}

PgTypeMap == [k \in PgTypeMapKeys |-> (CHOOSE e \in PgTypeMapEntries : e[1] = k)[2]]

EmptyMap == [k \in {} |-> ""]

\* conversionConfig.TypeMap and conversionConfig.DomainTypeMap (never set: nil).
DefaultTypeMap == [k \in {"jsonb", "uuid"} |->
                      IF k = "jsonb" THEN "datatypes.JSONMap" ELSE "datatypes.UUID"]

DefaultDomainTypeMap == EmptyMap

\* A Go map[string]string: nil, or a map m.
NilMap == [nil |-> TRUE, m |-> EmptyMap]

GoMap(f) == [nil |-> FALSE, m |-> f]

\* if cfg.X == nil { cfg.X = map[string]string{} }
NonNil(x) == IF x.nil THEN GoMap(EmptyMap) ELSE x

\* A variant of the merge loop without the exists test: the default overwrites.
RECURSIVE MergeLoopOverwrite(_, _, _)
MergeLoopOverwrite(m, def, keys) ==
    IF keys = {} THEN m
    ELSE LET k == CHOOSE x \in keys : TRUE
             m2 == [x \in DOMAIN m \cup {k} |-> IF x = k THEN def[k] ELSE m[x]]
         IN  MergeLoopOverwrite(m2, def, keys \ {k})

\* for k, v := range def { if _, exists := m[k]; !exists { m[k] = v } }
\* over the keys not yet visited.  Each key is visited once and touches only
\* its own entry, so the order of the range does not show in the result.
RECURSIVE MergeLoop(_, _, _)
MergeLoop(m, def, keys) ==
    IF keys = {} THEN m
    ELSE LET k == CHOOSE x \in keys : TRUE
             m2 == IF k \in DOMAIN m
                   THEN m
                   ELSE [x \in DOMAIN m \cup {k} |-> IF x = k THEN def[k] ELSE m[x]]
         IN  MergeLoop(m2, def, keys \ {k})

\* Lines 132-157 of main on the two type maps.
MergeDefaults(c) ==
    [TypeMap       |-> GoMap(MergeLoop(NonNil(c.TypeMap).m, DefaultTypeMap,
                                       DOMAIN DefaultTypeMap)),
     DomainTypeMap |-> GoMap(MergeLoop(NonNil(c.DomainTypeMap).m, DefaultDomainTypeMap,
                                       DOMAIN DefaultDomainTypeMap))]

\* The closure f(def) of postgresToGorm applied to a column.
TypeHook(c, def, col) ==
    IF col.ok /\ col.colType \in DOMAIN c.DomainTypeMap.m
    THEN c.DomainTypeMap.m[col.colType]
    ELSE IF col.ok /\ col.colType \in DOMAIN c.TypeMap.m
    THEN c.TypeMap.m[col.colType]
    ELSE def

\* The keys of dtMaps: one hook per entry of PgTypeMap, and no other.
DtMapsKeys == PgTypeMapKeys

\* What the generator infers for a column when no hook is registered for it.
Inferred(col) == "inferred:" \o col.typeName

\* The Go type of a column: the generator calls the hook registered in dtMaps
\* under the column's database type name, and infers a type when there is none.
DataTypeOf(c, col) ==
    IF col.typeName \in DtMapsKeys
    THEN TypeHook(c, PgTypeMap[col.typeName], col)
    ELSE Inferred(col)

MaxMerges == 2

\* All maps from a subset of keys to vals.
MapsOver(keys, vals) == UNION {[S -> vals] : S \in SUBSET keys}

UserTypeMaps == MapsOver({"jsonb", "text", "citext"}, {"custom.T", "string"})

UserDomainTypeMaps == MapsOver({"jsonb", "citext", "my_text_domain"}, {"custom.D"})

\* gorm.ColumnType as the hook sees it: DatabaseTypeName() and ColumnType().
Columns ==
    [typeName : {"jsonb", "uuid", "text", "citext"},
     colType  : {"jsonb", "uuid", "text", "citext", "my_text_domain"},
     ok       : BOOLEAN]

InitTypes ==
    /\ userCfg \in [TypeMap : {GoMap(f) : f \in UserTypeMaps} \cup {NilMap},
                    DomainTypeMap : {GoMap(f) : f \in UserDomainTypeMaps} \cup {NilMap}]
    /\ cfgMaps = userCfg
    /\ merges = 0
    /\ column = None
    /\ resolved = None
    /\ RelIdle /\ TagsIdle /\ RunIdle

\* main, lines 132-157.  Applied again to its own result to compare the two.
Merge ==
    /\ merges < MaxMerges
    /\ cfgMaps' = MergeDefaults(cfgMaps)
    /\ merges' = merges + 1
    /\ UNCHANGED <<userCfg, column, resolved, relVars, tagVars, runVars>>

\* The generator resolves the Go type of one reflected column.
ResolveColumn ==
    /\ merges >= 1
    /\ \E col \in Columns :
          /\ column' = col
          /\ resolved' = DataTypeOf(cfgMaps, col)
    /\ UNCHANGED <<userCfg, cfgMaps, merges, relVars, tagVars, runVars>>

NextTypes == Merge \/ ResolveColumn

SpecTypes == InitTypes /\ [][NextTypes]_vars

\* C2: a column whose type is a key of both DomainTypeMap and TypeMap gets
\* the DomainTypeMap value, whether or not PgTypeMap has the type.
C2_DomainWins ==
    (/\ resolved # None
     /\ column.ok /\ column.typeName = column.colType
     /\ column.colType \in DOMAIN cfgMaps.DomainTypeMap.m
     /\ column.colType \in DOMAIN cfgMaps.TypeMap.m)
        => resolved = cfgMaps.DomainTypeMap.m[column.colType]

\* C3: a column whose type is a key of TypeMap alone gets the TypeMap value
\* (whether or not PgTypeMap has the type); a type in neither override map
\* gets the PgTypeMap value when there is one, and the generator's inferred
\* type when there is none.
C3_Fallbacks ==
    (resolved # None /\ column.ok /\ column.typeName = column.colType
     /\ column.colType \notin DOMAIN cfgMaps.DomainTypeMap.m)
        => resolved =
             IF column.colType \in DOMAIN cfgMaps.TypeMap.m
             THEN cfgMaps.TypeMap.m[column.colType]
             ELSE IF column.colType \in PgTypeMapKeys
             THEN PgTypeMap[column.colType]
             ELSE Inferred(column)

\* The merged map keeps the user's entries and adds the missing defaults.
MergedFrom(user, def, merged) ==
    /\ ~merged.nil
    /\ DOMAIN merged.m = DOMAIN user.m \cup DOMAIN def
    /\ \A k \in DOMAIN user.m : merged.m[k] = user.m[k]
    /\ \A k \in DOMAIN def \ DOMAIN user.m : merged.m[k] = def[k]

\* C4: after the merge every user-supplied key of TypeMap and DomainTypeMap
\* keeps the user's value, exactly the default keys the user did not supply
\* are added with their default values, and merging the result again
\* changes nothing.
C4_MergeUserWins ==
    /\ [](merges >= 1 =>
            /\ MergedFrom(userCfg.TypeMap, DefaultTypeMap, cfgMaps.TypeMap)
            /\ MergedFrom(userCfg.DomainTypeMap, DefaultDomainTypeMap,
                          cfgMaps.DomainTypeMap))
    /\ [][(merges >= 1 /\ merges' = merges + 1) => cfgMaps' = cfgMaps]_vars

C4_Witness ==
    /\ merges = 2
    /\ "jsonb" \in DOMAIN userCfg.TypeMap.m
    /\ "uuid" \notin DOMAIN userCfg.TypeMap.m
    /\ cfgMaps.TypeMap.m["jsonb"] = "custom.T"
    /\ cfgMaps.TypeMap.m["uuid"] = "datatypes.UUID"

(***************************************************************************)
(* Model assembly: the loop bodies of postgresToGorm.                      *)
(***************************************************************************)

\* The type maps of a configuration that sets neither, after main's merge.
DefaultMaps == MergeDefaults([TypeMap |-> NilMap, DomainTypeMap |-> NilMap])

\* The columns the database reports for a relation.  A temp view is
\* "select * from" its materialized view and has that view's columns.
IdColumn == [name |-> "id", typeName |-> "int8", colType |-> "bigint", ok |-> TRUE]

ColX == [name |-> "col_x", typeName |-> "tsvector", colType |-> "tsvector", ok |-> TRUE]

Payload == [name |-> "payload", typeName |-> "jsonb", colType |-> "jsonb", ok |-> TRUE]

RelationColumns(rel) ==
    IF rel \in {"mv1", "mv1_temp"} THEN <<IdColumn, ColX>>
    ELSE IF rel \in {"mv2", "mv2_temp"} THEN <<IdColumn, Payload>>
    ELSE <<IdColumn, ColX, Payload>>

\* schema.NamingStrategy on the names the model uses: ColumnName of a column
\* to its field name, SchemaName of a table to its struct name.
FieldName(col) ==
    CASE col = "id"      -> "ID"
      [] col = "col_x"   -> "ColX"
      [] col = "payload" -> "Payload"
      [] OTHER           -> col

SchemaName(table) ==
    CASE table = "t1"       -> "T1"
      [] table = "mv1"      -> "Mv1"
      [] table = "mv2"      -> "Mv2"
      [] table = "mv1_temp" -> "Mv1Temp"
      [] table = "mv2_temp" -> "Mv2Temp"
      [] OTHER              -> table

\* The field the generator reflects from a column: its type through the
\* data-type hooks, its json tag through the strategy of line 103.
ReflectedField(maps, col) ==
    [Name       |-> FieldName(col.name),
     ColumnName |-> col.name,
     Type       |-> DataTypeOf(maps, col),
     Tag        |-> ToLowerCamel(col.name),
     GORMTag    |-> NoTag,
     Relation   |-> NoRelation]

\* g.GenerateModelAs(source, structName); g.GenerateModel(t) is
\* GenerateModelAs(t, SchemaName(t)).
GenerateModelAs(maps, source, structName) ==
    LET cols == RelationColumns(source)
    IN  [ModelStructName |-> structName,
         TableName       |-> source,
         FileName        |-> source,
         Fields          |-> [i \in 1..Len(cols) |-> ReflectedField(maps, cols[i])]]

GenerateModel(maps, tableName) ==
    GenerateModelAs(maps, tableName, SchemaName(tableName))

\* if ef, ok := cfg.ExtraFields[name]; ok { for _, ef := range ef { ... } }
AppendExtraFields(extra, name, fields) ==
    IF name \in DOMAIN extra
    THEN fields \o [i \in 1..Len(extra[name]) |-> genRelationField(extra[name][i])]
    ELSE fields

\* A variant that looks the field name up before the column name.
OverrideTagNameFirst(O, f) ==
    IF f.Name \in DOMAIN O THEN [f EXCEPT !.Tag = O[f.Name]]
    ELSE IF f.ColumnName \in DOMAIN O THEN [f EXCEPT !.Tag = O[f.ColumnName]]
    ELSE f

\* The body of the loop over model.Fields, lines 139-143 and 172-176.
OverrideTag(O, f) ==
    IF f.ColumnName \in DOMAIN O THEN [f EXCEPT !.Tag = O[f.ColumnName]]
    ELSE IF f.Name \in DOMAIN O THEN [f EXCEPT !.Tag = O[f.Name]]
    ELSE f

\* if jsonTagOverrides, ok := cfg.JsonTagOverridesByTable[name]; ok { ... }
ApplyJsonTagOverrides(over, name, fields) ==
    IF name \in DOMAIN over
    THEN [i \in 1..Len(fields) |-> OverrideTag(over[name], fields[i])]
    ELSE fields

\* The model stored in modelsMap[tableName], lines 128-146.
TableModel(c, tableName) ==
    LET model == GenerateModel(c.maps, tableName)
        extended == AppendExtraFields(c.ExtraFields, tableName, model.Fields)
    IN  [model EXCEPT !.Fields =
            ApplyJsonTagOverrides(c.JsonTagOverridesByTable, tableName, extended)]

\* The model stored in modelsMap[viewName], lines 150 and 157-179.
ViewModel(c, viewName) ==
    LET tmpViewName == viewName \o "_temp"
        model == GenerateModelAs(c.maps, tmpViewName, SchemaName(viewName))
        extended == AppendExtraFields(c.ExtraFields, viewName, model.Fields)
    IN  [model EXCEPT !.FileName = viewName,
                      !.TableName = viewName,
                      !.Fields =
            ApplyJsonTagOverrides(c.JsonTagOverridesByTable, viewName, extended)]

Attachments ==
    [StructPropName |-> "Attachments", StructPropType |-> "models.Attachment",
     FkStructPropName |-> "TicketID", RefStructPropName |-> "TicketID",
     HasMany |-> TRUE, Pointer |-> TRUE]

EmptyByTable == [n \in {} |-> EmptyMap]

OverrideMaps == MapsOver({"col_x", "ColX", "Attachments", ""}, {"-", "x"})

OverridesByTable ==
    {EmptyByTable} \cup
    {[n \in {t} |-> O] : t \in {"t1", "mv1"}, O \in OverrideMaps}

ExtraFieldsByTable ==
    {[n \in {} |-> <<>>], [n \in {"t1", "mv1"} |-> <<Attachments>>]}

NoModel == [key |-> "", kind |-> "", model |-> GenerateModelAs(DefaultMaps, "", "")]

InitTags ==
    /\ tagIn \in [maps : {DefaultMaps}, ExtraFields : ExtraFieldsByTable,
                  JsonTagOverridesByTable : OverridesByTable]
    /\ tagOut = NoModel
    /\ RelIdle /\ TypesIdle /\ RunIdle

\* One pass of the loop over tables, lines 127-147.
AssembleTable ==
    /\ \E tableName \in {"t1"} :
          tagOut' = [key |-> tableName, kind |-> "table",
                     model |-> TableModel(tagIn, tableName)]
    /\ UNCHANGED <<tagIn, relVars, typeVars, runVars>>

\* One pass of the loop over materialized views after the temp view exists,
\* lines 157-179.
AssembleView ==
    /\ \E viewName \in {"mv1", "mv2"} :
          tagOut' = [key |-> viewName, kind |-> "view",
                     model |-> ViewModel(tagIn, viewName)]
    /\ UNCHANGED <<tagIn, relVars, typeVars, runVars>>

NextTags == AssembleTable \/ AssembleView

SpecTags == InitTags /\ [][NextTags]_vars

\* The fields of the model before the tag overrides are applied.
DerivedFields(c, key, kind) ==
    AppendExtraFields(c.ExtraFields, key,
        GenerateModelAs(c.maps, IF kind = "view" THEN key \o "_temp" ELSE key,
                        SchemaName(key)).Fields)

\* C7: after the overrides for t are applied, each field f has the tag
\* O[f.ColumnName] if the column name is a key of t's override map O, else
\* O[f.Name] if the field name is a key, else the tag it was derived with;
\* "-" passes through like any value; without an override map for t no tag
\* changes.
C7_TagOverrides ==
    tagOut.key # "" =>
        LET derived == DerivedFields(tagIn, tagOut.key, tagOut.kind)
            out == tagOut.model.Fields
            over == tagIn.JsonTagOverridesByTable
        IN  /\ Len(out) = Len(derived)
            /\ \A i \in 1..Len(out) :
                 LET f == derived[i]
                 IN  /\ out[i] = [f EXCEPT !.Tag = out[i].Tag]
                     /\ (tagOut.key \notin DOMAIN over => out[i].Tag = f.Tag)
                     /\ tagOut.key \in DOMAIN over =>
                          LET O == over[tagOut.key]
                          IN  /\ (f.ColumnName \in DOMAIN O
                                    => out[i].Tag = O[f.ColumnName])
                              /\ (f.ColumnName \notin DOMAIN O /\ f.Name \in DOMAIN O
                                    => out[i].Tag = O[f.Name])
                              /\ (f.ColumnName \notin DOMAIN O /\ f.Name \notin DOMAIN O
                                    => out[i].Tag = f.Tag)

C7_Witness ==
    /\ tagOut.key = "t1"
    /\ "t1" \in DOMAIN tagIn.JsonTagOverridesByTable
    /\ LET O == tagIn.JsonTagOverridesByTable["t1"]
       IN  /\ DOMAIN O = {"col_x", "ColX", "Attachments"}
           /\ O["col_x"] = "-" /\ O["ColX"] = "x" /\ O["Attachments"] = "-"
    /\ Len(tagOut.model.Fields) = 4
    /\ tagOut.model.Fields[2].Tag = "-"
    /\ tagOut.model.Fields[3].Tag = "payload"
    /\ tagOut.model.Fields[4].Tag = "-"

(***************************************************************************)
(* postgresToGorm against a database, run twice.                           *)
(***************************************************************************)

\* The database: base tables and materialized views of schema public.  The
\* plain views are the state dbViews.
BaseTables == {"t1"}

MatViews == {"mv1", "mv2"}

\* select table_name from information_schema.tables where table_schema =
\* 'public': the base tables and the plain views, not the materialized views.
CatalogTables == BaseTables \cup dbViews

\* select matviewname from pg_matviews where schemaname = 'public'
CatalogMatViews == MatViews

\* The orders in which a result set, or a range over a Go map, can come.
Orders(S) ==
    {f \in [1..Cardinality(S) -> S] : \A i, j \in DOMAIN f : i # j => f[i] # f[j]}

\* A Go *[]string: nil, or a list.
NilList == [nil |-> TRUE, list |-> <<>>]

GoList(l) == [nil |-> FALSE, list |-> l]

EmptyModels == [n \in {} |-> NoModel.model]

Put(m, k, v) == [x \in DOMAIN m \cup {k} |-> IF x = k THEN v ELSE m[x]]

TempOf(viewName) == viewName \o "_temp"

NoLog(views) ==
    [viewsAtStart |-> views, created |-> {}, viewModels |-> {},
     preDropFailed |-> {}, cleanupFailed |-> {}, fatal |-> "",
     tableQueries |-> 0, viewQueries |-> 0, tablesProcessed |-> {}]

NoPrev == [valid |-> FALSE, applied |-> <<>>, names |-> <<>>]

\* The configurations: the commented sample of the source for ExtraFields and
\* JsonTagOverridesByTable, on the relations of this database.
Configs ==
    [Tables : {NilList, GoList(<<>>), GoList(<<"t1">>)},
     MaterializedViews : {NilList, GoList(<<>>), GoList(<<"mv1">>)},
     GenerateDbInit : BOOLEAN,
     maps : {DefaultMaps},
     ExtraFields : {[n \in {"mv1"} |-> <<Attachments>>]},
     JsonTagOverridesByTable : {[n \in {"mv1"} |-> [k \in {"col_x"} |-> "-"]]}]

\* The plain views the database holds before the first run: none, or one
\* that carries the name of a temp view.  Under catalog enumeration of the
\* tables the first run starts without views, and the views it leaves behind
\* are those the second run finds.
ViewsBefore(c) == IF c.Tables.nil THEN {{}} ELSE {{}, {"mv2_temp"}}

InitRun ==
    /\ cfg \in Configs
    /\ run = "first"
    /\ pc = "enumTables"
    /\ dbViews \in ViewsBefore(cfg)
    /\ tables = <<>>
    /\ materializedViews = <<>>
    /\ vi = 0
    /\ modelsMap = EmptyModels
    /\ deferred = <<>>
    /\ applied = <<>>
    /\ executed = FALSE
    /\ modelStructNames = <<>>
    /\ log = NoLog(dbViews)
    /\ prev = NoPrev
    /\ RelIdle /\ TypesIdle /\ TagsIdle

idleVars == <<relVars, typeVars, tagVars>>

\* Where a failed statement leaves the run: log.Fatal exits the process at
\* once, without running the deferred calls; an ignored error goes on.
AfterCreateErrorIgnored == "reflectView"

AfterCreateError == "fatal"

AfterPreDropError == "createView"

\* A variant that takes an empty list for no list.
TablesConfiguredNonEmpty == ~cfg.Tables.nil /\ Len(cfg.Tables.list) > 0

\* Line 85: if cfg.Tables != nil
TablesConfigured == ~cfg.Tables.nil

\* Lines 84-92.
EnumerateTables ==
    /\ pc = "enumTables"
    /\ \/ /\ TablesConfigured
          /\ tables' = cfg.Tables.list
          /\ pc' = "enumViews"
          /\ UNCHANGED log
       \/ /\ ~TablesConfigured
          /\ \E order \in Orders(CatalogTables) : tables' = order
          /\ pc' = "enumViews"
          /\ log' = [log EXCEPT !.tableQueries = @ + 1]
       \/ /\ ~TablesConfigured
          /\ UNCHANGED tables
          /\ pc' = "fatal"
          /\ log' = [log EXCEPT !.tableQueries = @ + 1, !.fatal = "enumTables"]
    /\ UNCHANGED <<cfg, run, dbViews, materializedViews, vi, modelsMap, deferred,
                   applied, executed, modelStructNames, prev, idleVars>>

\* The loop the run enters after enumeration, and after the table loop.
FirstLoop(ts, mvs) ==
    IF Len(ts) > 0 THEN "tables"
    ELSE IF Len(mvs) > 0 THEN "dropIfExists" ELSE "collect"

\* Lines 93-101.
EnumerateMaterializedViews ==
    /\ pc = "enumViews"
    /\ \/ /\ ~cfg.MaterializedViews.nil
          /\ materializedViews' = cfg.MaterializedViews.list
          /\ pc' = FirstLoop(tables, materializedViews')
          /\ UNCHANGED log
       \/ /\ cfg.MaterializedViews.nil
          /\ \E order \in Orders(CatalogMatViews) : materializedViews' = order
          /\ pc' = FirstLoop(tables, materializedViews')
          /\ log' = [log EXCEPT !.viewQueries = @ + 1]
       \/ /\ cfg.MaterializedViews.nil
          /\ UNCHANGED materializedViews
          /\ pc' = "fatal"
          /\ log' = [log EXCEPT !.viewQueries = @ + 1, !.fatal = "enumViews"]
    /\ UNCHANGED <<cfg, run, dbViews, tables, vi, modelsMap, deferred,
                   applied, executed, modelStructNames, prev, idleVars>>

\* One pass of the loop over tables, lines 127-147.
ProcessTable ==
    /\ pc = "tables"
    /\ LET tableName == tables[vi + 1]
       IN  /\ modelsMap' = Put(modelsMap, tableName, TableModel(cfg, tableName))
           /\ log' = [log EXCEPT !.tablesProcessed = @ \cup {tableName}]
    /\ IF vi + 1 < Len(tables)
       THEN vi' = vi + 1 /\ pc' = "tables"
       ELSE vi' = 0 /\ pc' = FirstLoop(<<>>, materializedViews)
    /\ UNCHANGED <<cfg, run, dbViews, tables, materializedViews, deferred,
                   applied, executed, modelStructNames, prev, idleVars>>

\* Line 151: drop view if exists; the error is discarded.
DropIfExists ==
    /\ pc = "dropIfExists"
    /\ LET tmpViewName == TempOf(materializedViews[vi + 1])
       IN  \/ /\ dbViews' = dbViews \ {tmpViewName}
              /\ pc' = "createView"
              /\ UNCHANGED log
           \/ /\ UNCHANGED dbViews
              /\ pc' = AfterPreDropError
              /\ log' = [log EXCEPT
                    !.preDropFailed = @ \cup {materializedViews[vi + 1]},
                    !.fatal = IF AfterPreDropError = "fatal" THEN "preDrop" ELSE @]
    /\ UNCHANGED <<cfg, run, tables, materializedViews, vi, modelsMap, deferred,
                   applied, executed, modelStructNames, prev, idleVars>>

\* Lines 152-155: create view; the statement fails when a view of that name
\* exists, and may fail for other reasons.
CreateView ==
    /\ pc = "createView"
    /\ LET tmpViewName == TempOf(materializedViews[vi + 1])
       IN  \/ /\ tmpViewName \notin dbViews
              /\ dbViews' = dbViews \cup {tmpViewName}
              /\ pc' = "reflectView"
              /\ log' = [log EXCEPT !.created = @ \cup {tmpViewName}]
           \/ /\ UNCHANGED dbViews
              /\ pc' = AfterCreateError
              /\ log' = [log EXCEPT
                    !.fatal = IF AfterCreateError = "fatal" THEN "create" ELSE @]
    /\ UNCHANGED <<cfg, run, tables, materializedViews, vi, modelsMap, deferred,
                   applied, executed, modelStructNames, prev, idleVars>>

\* Lines 156-179: defer the drop, reflect the temp view, store the model.
ReflectView ==
    /\ pc = "reflectView"
    /\ LET viewName == materializedViews[vi + 1]
       IN  /\ deferred' = Append(deferred, TempOf(viewName))
           /\ modelsMap' = Put(modelsMap, viewName, ViewModel(cfg, viewName))
           /\ log' = [log EXCEPT !.viewModels = @ \cup {viewName}]
    /\ vi' = vi + 1
    /\ pc' = IF vi + 1 < Len(materializedViews) THEN "dropIfExists" ELSE "collect"
    /\ UNCHANGED <<cfg, run, dbViews, tables, materializedViews,
                   applied, executed, modelStructNames, prev, idleVars>>

\* Lines 182-187: range over modelsMap, ApplyBasic, Execute.
CollectAndExecute ==
    /\ pc = "collect"
    /\ \E order \in Orders(DOMAIN modelsMap) :
          applied' = [i \in 1..Len(order) |-> modelsMap[order[i]]]
    /\ executed' = TRUE
    /\ pc' = IF cfg.GenerateDbInit THEN "dbInit" ELSE "return"
    /\ UNCHANGED <<cfg, run, dbViews, tables, materializedViews, vi, modelsMap,
                   deferred, modelStructNames, log, prev, idleVars>>

\* g.Data after ApplyBasic: keyed by model struct name.
DataKeys == {applied[i].ModelStructName : i \in 1..Len(applied)}

\* generatePostgresDbInit, lines 193-244: range over g.Data, render, write;
\* a template or write error is fatal and leaves no db.go.
GeneratePostgresDbInit ==
    /\ pc = "dbInit"
    /\ \/ /\ \E order \in Orders(DataKeys) : modelStructNames' = order
          /\ pc' = "return"
          /\ UNCHANGED log
       \/ /\ UNCHANGED modelStructNames
          /\ pc' = "fatal"
          /\ log' = [log EXCEPT !.fatal = "dbInit"]
    /\ UNCHANGED <<cfg, run, dbViews, tables, materializedViews, vi, modelsMap,
                   deferred, applied, executed, prev, idleVars>>

\* A variant without the defer of line 156: nothing is dropped on return.
DeferredSetEmpty == {}

DeferredSet == {deferred[i] : i \in 1..Len(deferred)}

\* Line 191: the function returns and the deferred drops of line 156 run;
\* each may fail, its result is discarded.
Return ==
    /\ pc = "return"
    /\ \E failed \in SUBSET DeferredSet :
          /\ dbViews' = dbViews \ (DeferredSet \ failed)
          /\ log' = [log EXCEPT !.cleanupFailed = failed]
    /\ deferred' = <<>>
    /\ pc' = "done"
    /\ UNCHANGED <<cfg, run, tables, materializedViews, vi, modelsMap,
                   applied, executed, modelStructNames, prev, idleVars>>

\* The program is started again with the same configuration, against the
\* database as the first run left it.
RunAgain ==
    /\ run = "first"
    /\ pc \in {"done", "fatal"}
    /\ run' = "second"
    /\ prev' = IF pc = "done" /\ dbViews = log.viewsAtStart
               THEN [valid |-> TRUE, applied |-> applied, names |-> modelStructNames]
               ELSE NoPrev
    /\ pc' = "enumTables"
    /\ tables' = <<>>
    /\ materializedViews' = <<>>
    /\ vi' = 0
    /\ modelsMap' = EmptyModels
    /\ deferred' = <<>>
    /\ applied' = <<>>
    /\ executed' = FALSE
    /\ modelStructNames' = <<>>
    /\ log' = NoLog(dbViews)
    /\ UNCHANGED <<cfg, dbViews, idleVars>>

Next ==
    \/ EnumerateTables
    \/ EnumerateMaterializedViews
    \/ ProcessTable
    \/ DropIfExists
    \/ CreateView
    \/ ReflectView
    \/ CollectAndExecute
    \/ GeneratePostgresDbInit
    \/ Return
    \/ RunAgain

Spec == InitRun /\ [][Next]_vars

Terminal == pc \in {"done", "fatal"}

\* C1: the temp view of every materialized view is created before that view
\* is reflected, and in every terminal state of a run - completion, or exit
\* on a fatal error of a later step - none of the temp views the run created
\* is left in the database.  Runs in which a deferred drop itself failed are
\* left aside.
C1_TempViewsDropped ==
    /\ \A v \in log.viewModels : TempOf(v) \in log.created
    /\ (Terminal /\ log.cleanupFailed = {}) =>
          \A t \in log.created : t \notin dbViews

\* C8: a second complete run against the schema and configuration of a
\* complete first run hands ApplyBasic the same sequence of models and
\* renders the same list of model names into db.go.
C8_SameOutputTwice ==
    (run = "second" /\ pc = "done" /\ prev.valid) =>
        /\ applied = prev.applied
        /\ modelStructNames = prev.names

\* The model set of a run against the database without its stale temp views.
ExpectedModels ==
    LET ts == IF cfg.Tables.nil THEN BaseTables
              ELSE {cfg.Tables.list[i] : i \in 1..Len(cfg.Tables.list)}
        vs == IF cfg.MaterializedViews.nil THEN MatViews
              ELSE {cfg.MaterializedViews.list[i] :
                        i \in 1..Len(cfg.MaterializedViews.list)}
    IN  [k \in ts \cup vs |->
            IF k \in vs THEN ViewModel(cfg, k) ELSE TableModel(cfg, k)]

\* C9: a run that starts with stale temp views in the database and completes
\* has the model set, keys and models, of a run against the same database
\* without them.
C9_StaleViewHarmless ==
    (pc = "done" /\ log.viewsAtStart # {}) => modelsMap = ExpectedModels

\* C10: a failed create view ends the run at once: the generator is never
\* executed and neither that view nor a later one gets a model.  A failed
\* "drop view if exists" and failed deferred drops are ignored: the run goes
\* on to the create step, and to normal completion.
C10_CreateFatalDropsIgnored ==
    /\ [](log.fatal = "create" =>
            /\ pc = "fatal"
            /\ ~executed /\ applied = <<>>
            /\ \A j \in (vi + 1)..Len(materializedViews) :
                  materializedViews[j] \notin log.viewModels)
    /\ [][/\ (pc = "createView" /\ dbViews' = dbViews) =>
                (pc' = "fatal" /\ log'.fatal = "create")
          /\ pc = "dropIfExists" => pc' = "createView"
          /\ pc = "return" => pc' = "done"]_vars

C10_Witness ==
    /\ pc = "fatal"
    /\ log.fatal = "create"
    /\ log.preDropFailed \cap log.viewModels # {}

SetOf(l) == {l[i] : i \in 1..Len(l)}

\* C11: without a configured table list the tables processed are exactly
\* those the catalog reports when the run starts, and with a configured list
\* (an empty one too) exactly that list, the catalog not being queried; the
\* same holds for the materialized views and their catalog.  Each catalog is
\* queried at most once in a run, and a failed catalog query ends the run
\* before any model is built.
C11_Enumeration ==
    /\ log.tableQueries <= 1 /\ log.viewQueries <= 1
    /\ (pc # "enumTables" /\ log.fatal # "enumTables") =>
          IF cfg.Tables.nil
          THEN /\ SetOf(tables) = BaseTables \cup log.viewsAtStart
               /\ Len(tables) = Cardinality(SetOf(tables))
               /\ log.tableQueries = 1
          ELSE tables = cfg.Tables.list /\ log.tableQueries = 0
    /\ (pc \notin {"enumTables", "enumViews"}
            /\ log.fatal \notin {"enumTables", "enumViews"}) =>
          IF cfg.MaterializedViews.nil
          THEN /\ SetOf(materializedViews) = MatViews
               /\ Len(materializedViews) = Cardinality(MatViews)
               /\ log.viewQueries = 1
          ELSE /\ materializedViews = cfg.MaterializedViews.list
               /\ log.viewQueries = 0
    /\ log.fatal \in {"enumTables", "enumViews"} =>
          /\ pc = "fatal"
          /\ modelsMap = EmptyModels /\ log.tablesProcessed = {}
          /\ ~executed
    /\ log.tablesProcessed \subseteq SetOf(tables)
    /\ log.viewModels \subseteq SetOf(materializedViews)
    /\ pc \in {"dropIfExists", "createView", "reflectView", "collect", "dbInit",
               "return", "done"} => log.tablesProcessed = SetOf(tables)
    /\ pc \in {"collect", "dbInit", "return", "done"} =>
          log.viewModels = SetOf(materializedViews)

C11_Witness ==
    /\ pc = "done"
    /\ cfg.Tables.nil /\ ~cfg.MaterializedViews.nil
    /\ log.viewsAtStart # {}
    /\ log.tablesProcessed = BaseTables \cup log.viewsAtStart
    /\ log.tableQueries = 1 /\ log.viewQueries = 0

\* The temp view names of the materialized views of this run.
TempNames == {TempOf(v) : v \in SetOf(materializedViews)}

\* C12 as stated: a run that completes without a fatal error, and in which
\* no drop failed, leaves the views of the database exactly as they were
\* before it, a view named <mv>_temp that existed before included.
C12_ViewsUntouched ==
    (pc = "done" /\ log.preDropFailed = {} /\ log.cleanupFailed = {}) =>
        dbViews = log.viewsAtStart

\* C12 amended: a run never touches a view other than the temp views
\* <mv>_temp of the materialized views it processes; after a run that
\* completes without a fatal error each of those is absent, whether or not a
\* view of that name existed before the run, unless its deferred drop failed.
C12_OnlyTempNamesTouched ==
    /\ dbViews \ TempNames = log.viewsAtStart \ TempNames
    /\ pc = "done" => dbViews \cap TempNames = log.cleanupFailed

C12_Witness ==
    /\ pc = "done"
    /\ materializedViews = <<"mv1">>
    /\ log.viewsAtStart = {"mv1_temp", "mv2_temp"}
    /\ dbViews = {"mv2_temp"}

====
